---- MODULE Spec2Model ----
(***************************************************************************)
(* The Camera component (second definition in src/unnamed/part_000, lines  *)
(* 130-375): permission state, stream lifecycle and the frame sampling     *)
(* effect, together with the browser collaborators it consumes, and the    *)
(* Home page (src/src/app/page.tsx) that loads the model, mounts Camera    *)
(* and classifies the frames it receives.                                  *)
(*                                                                         *)
(* Spec is Camera under a parent that keeps onFrame stable and whose       *)
(* handling of a frame is left out; SpecProps adds a parent that passes a  *)
(* new onFrame; SpecHome is Camera under Home, from the page load on.      *)
(*                                                                         *)
(* One step of the model is one task of the browser's event loop: the      *)
(* synchronous run of a handler or of the continuation of an await,        *)
(* followed by the React commit that its state updates schedule (render,   *)
(* ref updates, effect cleanup, effect setup).                             *)
(***************************************************************************)
EXTENDS Integers, Sequences, FiniteSets, TLC

\* Bounds of the exploration (per page load).
MaxCalls == 2      \* getUserMedia calls issued
MaxChanges == 1    \* changes of the platform's camera permission
MaxProps == 1      \* new onFrame callbacks passed by the parent
MaxInFlight == 2   \* model.classify calls pending at the same time
MaxLeaked == 1     \* tensors left undisposed

Perms == {"prompt", "granted", "denied"}
Hints == {"none", "granted", "denied"}

\* The messages passed to setError.
NoError == ""
NoCameraMsg == "No se detecto ninguna camara"
DeniedMsg == "Acceso a la camara denegado"
GenericMsg == "Error al acceder a la camara"
CheckMsg == "Error al verificar la camara"
LoadMsg == "Error al cargar el modelo de IA"

VARIABLES
    hasCamera,          \* platform: enumerateDevices() lists a videoinput device
    permsApi,           \* platform: 'permissions' in navigator
    platform,           \* platform: live state of the camera permission
    saved,              \* localStorage 'cameraPermission' ("none" = no entry)
    hint,               \* value of saved when the component was mounted
    mounted,            \* the component is mounted
    checkPc,            \* position of checkCameraAvailability
    checkResult,        \* how the call awaited by checkCameraAvailability ended
    isCameraAvailable,  \* useState
    permissionStatus,   \* useState
    error,              \* useState
    streamRef,          \* streamRef.current (0 = null)
    videoRef,           \* videoRef.current: index in elems (0 = null)
    live,               \* streams with a track that has not been stopped
    nstreams,           \* streams handed out by getUserMedia so far
    calls,              \* getUserMedia calls issued so far
    pending,            \* pending getUserMedia calls that nobody awaits
    listening,          \* the 'change' listener is registered
    changes,            \* platform permission changes so far
    elems,              \* the video elements created so far
    sessions,           \* the runs of the sampling effect that passed its guard
    cur,                \* the session whose cleanup React holds (0 = none)
    onFrame,            \* the onFrame prop: how often its identity changed
    model,              \* Home: useState ("null" or "loaded")
    isLoading,          \* Home: useState
    pageError,          \* Home: useState error
    predictions,        \* Home: useState ("empty" or "set")
    classifying,        \* Home: model.classify calls pending
    tensors,            \* tensors created and not disposed
    ev                  \* what the last step did (observation only)

vars == <<hasCamera, permsApi, platform, saved, hint, mounted, checkPc,
          checkResult, isCameraAvailable, permissionStatus, error, streamRef, videoRef,
          live, nstreams, calls, pending, listening, changes, elems,
          sessions, cur, onFrame, model, isLoading, pageError, predictions,
          classifying, tensors, ev>>

\* Written only at mount and when the awaited call settles.
quietVars == <<hasCamera, permsApi, checkResult>>

\* The state of Home, and what Camera receives from its parent.
homeVars == <<model, isLoading, pageError, predictions, classifying, tensors>>
parentVars == <<onFrame, homeVars>>

\* The state of Camera and of the platform, but for mounted.
cameraVars == <<hasCamera, permsApi, platform, saved, hint, checkPc,
                checkResult, isCameraAvailable, permissionStatus, error,
                streamRef, videoRef, live, nstreams, calls, pending,
                listening, changes, elems, sessions, cur>>

\* The intrinsic sizes <<videoWidth, videoHeight>> the video element may
\* report: the camera held in landscape or in portrait.
Sizes == {<<640, 480>>, <<480, 640>>}

\* No frame was handed to onFrame.
NoFrame == [w |-> 0, h |-> 0, videoWidth |-> 0, videoHeight |-> 0]

\* The observation of a step: its kind, the stream or session it concerns,
\* Permission State, streamRef.current and videoRef.current when it began,
\* a flag (readyState was HAVE_ENOUGH_DATA / storage write succeeded), and
\* the frame it handed to onFrame.
Ev(kind, n, flag) ==
    [kind |-> kind, n |-> n, flag |-> flag, pre |-> permissionStatus,
     ref |-> streamRef, vid |-> videoRef, up |-> mounted, frame |-> NoFrame]

\* The observation of the first render.
MountEv == [kind |-> "mount", n |-> 0, flag |-> FALSE, pre |-> "prompt",
            ref |-> 0, vid |-> 0, up |-> TRUE, frame |-> NoFrame]

\* The observation of Home's first render.
LoadEv == [MountEv EXCEPT !.kind = "load", !.up = FALSE]

\* A video element as React creates it, and a run of the sampling effect
\* that passed its guard: the element it listens on, its pending
\* requestAnimationFrame callbacks, and its variable animationFrame.
NewElem == [src |-> 0, playPending |-> FALSE]
NewSession(e) == [elem |-> e, chains |-> {}, af |-> 0, nchains |-> 0,
                  cleaned |-> FALSE]

\* A state setter: a no-op once the component is unmounted.
SetState(new, old) == IF mounted THEN new ELSE old

\* A faulty variant of SetItem: the write is silently dropped. C12 must tell
\* it from the code.
SetItem_Dropped(value, ok) == saved

\* localStorage.setItem inside try/catch: the write may throw and is then
\* only logged.
SetItem(value, ok) == IF ok THEN value ELSE saved

\* A faulty variant of stopCurrentStream: the tracks are left running. C13
\* must tell it from the code.
stopCurrentStream_Skipped(ref, lv) == lv

\* stopCurrentStream: the tracks of streamRef.current are stopped.
stopCurrentStream(ref, lv) == lv \ {ref}

\* The cleanup of the sampling effect: cancelAnimationFrame(animationFrame).
Cleanup(s) == [s EXCEPT !.chains = @ \ {s.af}, !.cleaned = TRUE]

\* The guard of the sampling effect.
SamplingGuard(vr, a, p) == vr # 0 /\ a /\ p = "granted"

\* The render branches: the video and canvas elements are rendered only
\* in the last one.
VideoRendered(m, a, p) == m /\ a /\ p = "granted"

\* The commit after a step that leaves the component mounted = m,
\* isCameraAvailable = a, permissionStatus = p, the elements el.
Render(m, a, p, el) ==
    LET wasVideo == videoRef # 0
        nowVideo == VideoRendered(m, a, p)
        el1 == IF wasVideo /\ ~nowVideo
               THEN [el EXCEPT ![videoRef].playPending = FALSE] ELSE el
        el2 == IF nowVideo /\ ~wasVideo THEN Append(el1, NewElem) ELSE el1
        vr == IF nowVideo THEN (IF wasVideo THEN videoRef ELSE Len(el2)) ELSE 0
        unmounting == mounted /\ ~m
        depsChanged == mounted /\ m /\
                       (a # isCameraAvailable \/ p # permissionStatus)
        rerun == unmounting \/ depsChanged
        se1 == IF rerun /\ cur # 0
               THEN [sessions EXCEPT ![cur] = Cleanup(@)] ELSE sessions
        setup == depsChanged /\ SamplingGuard(vr, a, p)
        se2 == IF setup THEN Append(se1, NewSession(vr)) ELSE se1
    IN  /\ elems' = el2
        /\ videoRef' = vr
        /\ sessions' = se2
        /\ cur' = IF rerun THEN (IF setup THEN Len(se2) ELSE 0) ELSE cur

\* A faulty variant of CameraRendered: Camera is rendered in every branch.
\* C20 must tell it from the code.
CameraRendered_Always(err, loading) == TRUE

\* Home's render branches: Camera is rendered in the last one only.
CameraRendered(err, loading) == err = NoError /\ ~loading

\* Camera and the platform before Camera's mount effect has run.
InitCamera ==
    /\ hasCamera \in BOOLEAN
    /\ permsApi \in BOOLEAN
    /\ platform \in Perms
    /\ saved \in Hints
    /\ hint = saved
    /\ checkPc = "start"
    /\ checkResult = "none"
    /\ isCameraAvailable = FALSE
    /\ permissionStatus = "prompt"
    /\ error = NoError
    /\ streamRef = 0
    /\ videoRef = 0
    /\ live = {}
    /\ nstreams = 0
    /\ calls = 0
    /\ pending = 0
    /\ listening = FALSE
    /\ changes = 0
    /\ elems = <<>>
    /\ sessions = <<>>
    /\ cur = 0
    /\ onFrame = 0

\* Camera has just been mounted by a parent that is ready.
Init ==
    /\ InitCamera
    /\ mounted = TRUE
    /\ model = "loaded"
    /\ isLoading = FALSE
    /\ pageError = NoError
    /\ predictions = "empty"
    /\ classifying = 0
    /\ tensors = 0
    /\ ev = MountEv

\* The page has just been loaded: Home's first render.
InitHome ==
    /\ InitCamera
    /\ model = "null"
    /\ isLoading = TRUE
    /\ pageError = NoError
    /\ predictions = "empty"
    /\ classifying = 0
    /\ tensors = 0
    /\ mounted = CameraRendered(pageError, isLoading)
    /\ ev = LoadEv

\* requestCameraPermission up to its await: stopCurrentStream(), then the
\* getUserMedia call is issued. awaited: the caller awaits the result.
requestCameraPermission(awaited) ==
    /\ calls < MaxCalls
    /\ live' = stopCurrentStream(streamRef, live)
    /\ streamRef' = 0
    /\ calls' = calls + 1
    /\ pending' = IF awaited THEN pending ELSE pending + 1

\* The getUserMedia call this continuation belongs to is pending.
IsPending(awaited) == IF awaited THEN checkPc = "awaitRequest" ELSE pending > 0

\* The call is settled: its caller, if it awaited it, returns.
Settle(awaited, result) ==
    /\ pending' = IF awaited THEN pending ELSE pending - 1
    /\ checkPc' = IF awaited THEN "done" ELSE checkPc
    /\ checkResult' = IF awaited THEN result ELSE checkResult

\* A faulty variant of FailureStatus: NotAllowedError is handled like any
\* other rejection. C4 must tell it from the code.
FailureStatus_Unchanged(name, p) == p

\* Permission State after a rejected getUserMedia call.
FailureStatus(name, p) == IF name = "NotAllowedError" THEN "denied" ELSE p

\* Error State after a rejected getUserMedia call.
FailureError(name) == IF name = "NotAllowedError" THEN DeniedMsg ELSE GenericMsg

\* A faulty variant of FailureSaved: the denial is never persisted. C7 must
\* tell it from the code.
FailureSaved_NotWritten(name, ok) == saved

\* The persisted preference after a rejected getUserMedia call.
FailureSaved(name, ok) ==
    IF name = "NotAllowedError" THEN SetItem("denied", ok) ELSE saved

\* A faulty variant of checkCameraAvailability: a persisted 'granted' is
\* copied into Permission State before the platform is asked. C14 must tell
\* it from the code.
checkCameraAvailability_TrustsHint ==
    /\ mounted
    /\ checkPc = "start"
    /\ IF saved = "granted"
       THEN /\ requestCameraPermission(TRUE)
            /\ checkPc' = "awaitRequest"
            /\ permissionStatus' = "granted"
       ELSE /\ checkPc' = "awaitEnumerate"
            /\ UNCHANGED <<live, streamRef, calls, pending, permissionStatus>>
    /\ ev' = Ev("checkStart", 0, FALSE)
    /\ UNCHANGED <<quietVars, platform, saved, hint, mounted,
                   isCameraAvailable, error, videoRef,
                   nstreams, listening, changes, elems, sessions, cur>>
    /\ UNCHANGED parentVars

\* The mount effect starts checkCameraAvailability: the persisted hint is
\* read, and 'granted' short-circuits into requestCameraPermission.
checkCameraAvailability ==
    /\ mounted
    /\ checkPc = "start"
    /\ IF saved = "granted"
       THEN /\ requestCameraPermission(TRUE)
            /\ checkPc' = "awaitRequest"
       ELSE /\ checkPc' = "awaitEnumerate"
            /\ UNCHANGED <<live, streamRef, calls, pending>>
    /\ ev' = Ev("checkStart", 0, FALSE)
    /\ UNCHANGED <<quietVars, platform, saved, hint, mounted,
                   isCameraAvailable, permissionStatus, error, videoRef,
                   nstreams, listening, changes, elems, sessions, cur>>
    /\ UNCHANGED parentVars

\* enumerateDevices() resolves.
EnumerateResolves ==
    /\ checkPc = "awaitEnumerate"
    /\ isCameraAvailable' = SetState(hasCamera, isCameraAvailable)
    /\ error' = IF hasCamera THEN error ELSE SetState(NoCameraMsg, error)
    /\ checkPc' = IF hasCamera /\ permsApi THEN "awaitQuery" ELSE "done"
    /\ Render(mounted, isCameraAvailable', permissionStatus, elems)
    /\ ev' = Ev("enumerated", 0, hasCamera)
    /\ UNCHANGED <<quietVars, platform, saved, hint, mounted,
                   permissionStatus, streamRef, live, nstreams, calls,
                   pending, listening, changes>>
    /\ UNCHANGED parentVars

\* enumerateDevices() or permissions.query() rejects: the catch of
\* checkCameraAvailability.
CheckFails ==
    /\ checkPc \in {"awaitEnumerate", "awaitQuery"}
    /\ error' = SetState(CheckMsg, error)
    /\ checkPc' = "done"
    /\ ev' = Ev("checkFailed", 0, FALSE)
    /\ UNCHANGED <<quietVars, platform, saved, hint, mounted,
                   isCameraAvailable, permissionStatus, streamRef, videoRef,
                   live, nstreams, calls, pending, listening, changes, elems,
                   sessions, cur>>
    /\ UNCHANGED parentVars

\* permissions.query() resolves: Permission State is set from the live
\* state, the change listener is registered, and 'granted' starts an
\* acquisition that is not awaited.
QueryResolves ==
    /\ checkPc = "awaitQuery"
    /\ permissionStatus' = SetState(platform, permissionStatus)
    /\ listening' = TRUE
    /\ IF platform = "granted"
       THEN requestCameraPermission(FALSE)
       ELSE UNCHANGED <<live, streamRef, calls, pending>>
    /\ checkPc' = "done"
    /\ Render(mounted, isCameraAvailable, permissionStatus', elems)
    /\ ev' = Ev("queried", 0, FALSE)
    /\ UNCHANGED <<quietVars, platform, saved, hint, mounted,
                   isCameraAvailable, error, nstreams, changes>>
    /\ UNCHANGED parentVars

\* The platform's camera permission changes to new. With the listener
\* registered its handler runs. A platform that revokes may end the tracks
\* of the streams it handed out.
PermissionChange(new) ==
    /\ changes < MaxChanges
    /\ new \in Perms \ {platform}
    /\ platform' = new
    /\ changes' = changes + 1
    /\ IF listening /\ new = "granted"
       THEN requestCameraPermission(FALSE)
       ELSE /\ \E ends \in BOOLEAN :
                live' = IF platform = "granted" /\ ends THEN {} ELSE live
            /\ UNCHANGED <<streamRef, calls, pending>>
    /\ permissionStatus' =
           IF listening THEN SetState(new, permissionStatus)
           ELSE permissionStatus
    /\ Render(mounted, isCameraAvailable, permissionStatus', elems)
    /\ ev' = Ev("change", 0, listening)
    /\ UNCHANGED <<quietVars, saved, hint, mounted, checkPc,
                   isCameraAvailable, error, nstreams, listening>>
    /\ UNCHANGED parentVars

\* The button of the 'prompt' panel.
ClickAllow ==
    /\ mounted /\ isCameraAvailable /\ permissionStatus = "prompt"
    /\ requestCameraPermission(FALSE)
    /\ ev' = Ev("click", 0, FALSE)
    /\ UNCHANGED <<quietVars, platform, saved, hint, mounted, checkPc,
                   isCameraAvailable, permissionStatus, error, videoRef,
                   nstreams, listening, changes, elems, sessions, cur>>
    /\ UNCHANGED parentVars

\* getUserMedia resolves with a new stream.
getUserMediaResolves(awaited) ==
    /\ IsPending(awaited)
    /\ hasCamera /\ platform # "denied"
    /\ Settle(awaited, "resolved")
    /\ nstreams' = nstreams + 1
    /\ live' = live \cup {nstreams + 1}
    /\ streamRef' = nstreams + 1
    /\ IF videoRef # 0
       THEN \E ok \in BOOLEAN :
            /\ permissionStatus' = SetState("granted", permissionStatus)
            /\ error' = SetState(NoError, error)
            /\ saved' = SetItem("granted", ok)
            /\ Render(mounted, isCameraAvailable, permissionStatus',
                      [elems EXCEPT ![videoRef] =
                           [src |-> nstreams + 1, playPending |-> TRUE]])
            /\ ev' = Ev("resolved", nstreams + 1, ok)
       ELSE /\ ev' = Ev("resolved", nstreams + 1, FALSE)
            /\ UNCHANGED <<permissionStatus, error, saved, elems, videoRef,
                           sessions, cur>>
    /\ UNCHANGED <<hasCamera, permsApi, platform, hint, mounted,
                   isCameraAvailable, calls, listening, changes>>
    /\ UNCHANGED parentVars

\* getUserMedia rejects: the catch of requestCameraPermission.
getUserMediaRejects(awaited, name) ==
    /\ IsPending(awaited)
    /\ name = "NotAllowedError" => hasCamera /\ platform # "granted"
    /\ Settle(awaited, name)
    /\ permissionStatus' =
           SetState(FailureStatus(name, permissionStatus), permissionStatus)
    /\ error' = SetState(FailureError(name), error)
    /\ \E ok \in BOOLEAN :
         /\ saved' = FailureSaved(name, ok)
         /\ ev' = Ev(name, IF awaited THEN 1 ELSE 0, ok)
    /\ Render(mounted, isCameraAvailable, permissionStatus', elems)
    /\ UNCHANGED <<hasCamera, permsApi, platform, hint, mounted,
                   isCameraAvailable, streamRef, live, nstreams, calls,
                   listening, changes>>
    /\ UNCHANGED parentVars

\* The video element starts playing the stream attached to it: every 'play'
\* listener added to the element runs (none is ever removed).
Play(e) ==
    /\ e \in DOMAIN elems
    /\ elems[e].playPending
    /\ elems' = [elems EXCEPT ![e].playPending = FALSE]
    /\ sessions' = [s \in DOMAIN sessions |->
                      IF sessions[s].elem = e
                      THEN [sessions[s] EXCEPT !.nchains = @ + 1,
                                !.chains = @ \cup {sessions[s].nchains + 1},
                                !.af = sessions[s].nchains + 1]
                      ELSE sessions[s]]
    /\ ev' = Ev("play", e, FALSE)
    /\ UNCHANGED <<quietVars, platform, saved, hint, mounted, checkPc,
                   isCameraAvailable, permissionStatus, error, streamRef,
                   videoRef, live, nstreams, calls, pending, listening,
                   changes, cur>>
    /\ UNCHANGED parentVars

\* The video element can report HAVE_ENOUGH_DATA only with a source
\* attached. Whether it still does once the tracks of that source have
\* ended, or once the element has left the document, is the browser's
\* choice, so both outcomes are allowed.
CanBeReady(e) == elems[e].src # 0

\* The canvas takes the size of the video, the video is drawn on it, and
\* getImageData(0, 0, canvas.width, canvas.height) reads it back.
ImageData(size) == [w |-> size[1], h |-> size[2]]

\* A faulty variant of Sampled: a frame is handed over on every tick,
\* whatever readyState says. C18 must tell it from the code.
Sampled_Always(enough, size) ==
    [w |-> ImageData(size).w, h |-> ImageData(size).h,
     videoWidth |-> size[1], videoHeight |-> size[2]]

\* What a tick hands to onFrame, with the size of the video at that tick.
Sampled(enough, size) ==
    IF enough
    THEN [w |-> ImageData(size).w, h |-> ImageData(size).h,
          videoWidth |-> size[1], videoHeight |-> size[2]]
    ELSE NoFrame

\* An animation frame: the pending callback c of session s runs
\* processFrame. enough: video.readyState === video.HAVE_ENOUGH_DATA;
\* size: the video's videoWidth and videoHeight. The callback schedules
\* itself again and stores the new handle in animationFrame.
processFrame(s, c, enough, size) ==
    /\ s \in DOMAIN sessions
    /\ c \in sessions[s].chains
    /\ enough => CanBeReady(sessions[s].elem)
    /\ sessions' = [sessions EXCEPT ![s].af = c]
    /\ ev' = [Ev("tick", s, enough) EXCEPT !.frame = Sampled(enough, size)]
    /\ UNCHANGED <<quietVars, platform, saved, hint, mounted, checkPc,
                   isCameraAvailable, permissionStatus, error, streamRef,
                   videoRef, live, nstreams, calls, pending, listening,
                   changes, elems, cur, onFrame>>

\* The component is unmounted: both effect cleanups run.
Unmount ==
    /\ mounted
    /\ checkPc # "start"
    /\ mounted' = FALSE
    /\ live' = stopCurrentStream(streamRef, live)
    /\ streamRef' = 0
    /\ Render(FALSE, isCameraAvailable, permissionStatus, elems)
    /\ ev' = Ev("unmount", 0, FALSE)
    /\ UNCHANGED <<quietVars, platform, saved, hint, checkPc,
                   isCameraAvailable, permissionStatus, error, nstreams,
                   calls, pending, listening, changes>>
    /\ UNCHANGED parentVars

\* The button of the 'denied' panel: stopCurrentStream() and
\* window.location.reload(). The page is torn down and loaded afresh over
\* the same platform and storage.
Reload ==
    /\ mounted /\ isCameraAvailable /\ permissionStatus = "denied"
    /\ hint' = saved
    /\ checkPc' = "start"
    /\ checkResult' = "none"
    /\ isCameraAvailable' = FALSE
    /\ permissionStatus' = "prompt"
    /\ error' = NoError
    /\ streamRef' = 0
    /\ videoRef' = 0
    /\ live' = {}
    /\ nstreams' = 0
    /\ calls' = 0
    /\ pending' = 0
    /\ listening' = FALSE
    /\ changes' = 0
    /\ elems' = <<>>
    /\ sessions' = <<>>
    /\ cur' = 0
    /\ onFrame' = 0
    /\ UNCHANGED <<hasCamera, permsApi, platform, saved>>

\* The reload under a parent that is ready at once.
ReloadApp ==
    /\ Reload
    /\ mounted' = TRUE
    /\ ev' = MountEv
    /\ UNCHANGED homeVars

\* An animation frame under a parent whose onFrame is left out.
AnimationFrame(s, c, enough, size) ==
    /\ processFrame(s, c, enough, size)
    /\ UNCHANGED homeVars

\* The shared steps of Camera and the platform.
CameraNext ==
    \/ checkCameraAvailability
    \/ EnumerateResolves
    \/ CheckFails
    \/ QueryResolves
    \/ \E new \in Perms : PermissionChange(new)
    \/ ClickAllow
    \/ \E awaited \in BOOLEAN : getUserMediaResolves(awaited)
    \/ \E awaited \in BOOLEAN, name \in {"NotAllowedError", "OtherError"} :
           getUserMediaRejects(awaited, name)
    \/ \E e \in DOMAIN elems : Play(e)
    \/ Unmount

Next ==
    \/ CameraNext
    \/ \E s \in DOMAIN sessions :
           \E c \in sessions[s].chains, enough \in BOOLEAN, size \in Sizes :
               AnimationFrame(s, c, enough, size)
    \/ ReloadApp

Spec == Init /\ [][Next]_vars

(***************************************************************************)
(* A parent that passes a new onFrame.                                     *)
(***************************************************************************)

\* The parent re-renders Camera with an onFrame of a new identity: the
\* sampling effect is cleaned up and runs again.
OnFrameChange ==
    /\ mounted
    /\ onFrame < MaxProps
    /\ onFrame' = onFrame + 1
    /\ LET se1 == IF cur # 0
                  THEN [sessions EXCEPT ![cur] = Cleanup(@)] ELSE sessions
           setup == SamplingGuard(videoRef, isCameraAvailable, permissionStatus)
           se2 == IF setup THEN Append(se1, NewSession(videoRef)) ELSE se1
       IN  /\ sessions' = se2
           /\ cur' = IF setup THEN Len(se2) ELSE 0
    /\ ev' = Ev("props", 0, FALSE)
    /\ UNCHANGED <<quietVars, platform, saved, hint, mounted, checkPc,
                   isCameraAvailable, permissionStatus, error, streamRef,
                   videoRef, live, nstreams, calls, pending, listening,
                   changes, elems, homeVars>>

NextProps ==
    \/ Next
    \/ OnFrameChange

SpecProps == Init /\ [][NextProps]_vars

(***************************************************************************)
(* Camera under Home.                                                      *)
(***************************************************************************)

\* loadModel: tf.ready() and mobilenet.load() have resolved; the model is
\* stored, the spinner goes and Camera is mounted.
LoadResolves ==
    /\ isLoading
    /\ model' = "loaded"
    /\ isLoading' = FALSE
    /\ mounted' = CameraRendered(pageError, isLoading')
    /\ ev' = MountEv
    /\ UNCHANGED <<cameraVars, onFrame, pageError, predictions, classifying,
                   tensors>>

\* loadModel: tf.ready() or mobilenet.load() has rejected.
LoadRejects ==
    /\ isLoading
    /\ pageError' = LoadMsg
    /\ isLoading' = FALSE
    /\ mounted' = CameraRendered(pageError', isLoading')
    /\ ev' = [LoadEv EXCEPT !.kind = "loadFailed"]
    /\ UNCHANGED <<cameraVars, onFrame, model, predictions, classifying,
                   tensors>>

\* Home's processFrame up to its await, called with what the tick hands
\* over: nothing without a frame or a model, else a tensor is created
\* from the frame and model.classify is started.
HomeProcessFrame(f) ==
    IF f # NoFrame /\ model # "null"
    THEN /\ classifying < MaxInFlight
         /\ tensors' = tensors + 1
         /\ classifying' = classifying + 1
         /\ UNCHANGED <<model, isLoading, pageError, predictions>>
    ELSE UNCHANGED homeVars

\* An animation frame under Home: Camera's processFrame calls Home's.
AnimationFrameHome(s, c, enough, size) ==
    /\ processFrame(s, c, enough, size)
    /\ HomeProcessFrame(Sampled(enough, size))

\* model.classify resolves: the tensor is disposed and the predictions
\* are stored.
ClassifyResolves ==
    /\ classifying > 0
    /\ classifying' = classifying - 1
    /\ tensors' = tensors - 1
    /\ predictions' = SetState("set", predictions)
    /\ ev' = Ev("classified", 0, TRUE)
    /\ UNCHANGED <<cameraVars, mounted, onFrame, model, isLoading, pageError>>

\* model.classify rejects: the catch logs the error.
ClassifyRejects ==
    /\ classifying > 0
    /\ tensors - classifying < MaxLeaked
    /\ classifying' = classifying - 1
    /\ ev' = Ev("classifyFailed", 0, FALSE)
    /\ UNCHANGED <<cameraVars, mounted, onFrame, model, isLoading, pageError,
                   predictions, tensors>>

\* The reload of the page: Home starts loading the model again.
ReloadPage ==
    /\ Reload
    /\ model' = "null"
    /\ isLoading' = TRUE
    /\ pageError' = NoError
    /\ predictions' = "empty"
    /\ classifying' = 0
    /\ tensors' = 0
    /\ mounted' = CameraRendered(pageError', isLoading')
    /\ ev' = LoadEv

NextHome ==
    \/ CameraNext
    \/ \E s \in DOMAIN sessions :
           \E c \in sessions[s].chains, enough \in BOOLEAN, size \in Sizes :
               AnimationFrameHome(s, c, enough, size)
    \/ LoadResolves
    \/ LoadRejects
    \/ ClassifyResolves
    \/ ClassifyRejects
    \/ ReloadPage

SpecHome == InitHome /\ [][NextHome]_vars


(***************************************************************************)
(* Stream lifecycle.                                                       *)
(***************************************************************************)

\* C1: for every sequence of requestCameraPermission invocations, including
\* ones that begin while an earlier getUserMedia call is pending, at most
\* one stream with un-stopped tracks exists in every reachable state.
C1_AtMostOneLiveStream == Cardinality(live) <= 1

\* C9: after the cleanup of the mount effect has run at unmount, no stream
\* with un-stopped tracks exists in any later state.
C9_NoLiveStreamAfterUnmount == ~mounted => live = {}

\* C10: a permission change event reporting 'prompt' or 'denied' that
\* arrives while Permission State is 'granted' and a stream is held
\* destroys the Active Stream: its tracks are stopped and streamRef.current
\* is cleared.
C10_RevocationDestroysStream ==
    (ev.kind = "change" /\ ev.flag /\ ev.up /\ ev.pre = "granted"
        /\ ev.ref # 0 /\ permissionStatus # "granted")
    => (streamRef = 0 /\ ev.ref \notin live)

(***************************************************************************)
(* Frame sampling.                                                         *)
(***************************************************************************)

\* A step delivered a frame to onFrame.
FrameDelivered == ev.kind = "tick" /\ ev.frame # NoFrame

\* C2: after the cleanup of a run of the sampling effect, the onFrame of
\* that run receives no further frame, whatever ticks and video events
\* follow.
C2_NoFrameAfterCleanup == FrameDelivered => ~sessions[ev.n].cleaned

\* C8: a frame is delivered to onFrame only if isCameraAvailable is true and
\* Permission State is 'granted' at that moment.
C8_FrameOnlyWhenGranted ==
    FrameDelivered => (isCameraAvailable /\ permissionStatus = "granted")

(***************************************************************************)
(* The mount-time check and the persisted hint.                            *)
(***************************************************************************)

\* checkCameraAvailability has returned without entering its catch.
CheckFinished == checkPc = "done" /\ error # CheckMsg

\* C3: with no video-input device, for every value of the persisted hint,
\* Permission State stays 'prompt', and once the mount-time check has
\* finished Error State is the no-camera message.
C3_NoCameraReported ==
    (~hasCamera /\ mounted)
    => /\ permissionStatus = "prompt"
       /\ CheckFinished => error = NoCameraMsg

\* C4: with the persisted hint 'granted' and a getUserMedia call that
\* rejects with NotAllowedError, Permission State is 'denied' from the end
\* of the mount-time check on.
C4_LiveDenialWins ==
    (hint = "granted" /\ mounted /\ checkResult = "NotAllowedError")
    => permissionStatus = "denied"

\* C4 witness: the hint was 'granted', the platform's permission has been
\* 'denied' since mount, and the awaited call was rejected for that reason.
C4_Witness ==
    /\ hint = "granted" /\ mounted /\ checkPc = "done"
    /\ platform = "denied" /\ changes = 0
    /\ checkResult = "NotAllowedError"
    /\ permissionStatus = "denied"

\* C5: with the persisted hint 'granted', a camera present, a platform
\* that still grants access and a getUserMedia call that resolves, the component ends up, without any
\* user action, with isCameraAvailable true, Permission State 'granted',
\* the stream attached to the video element and sampling set up.
C5_RoundTrip ==
    (hint = "granted" /\ hasCamera /\ mounted /\ checkResult = "resolved"
        /\ platform = "granted" /\ changes = 0)
    => /\ isCameraAvailable
       /\ permissionStatus = "granted"
       /\ videoRef # 0
       /\ cur # 0

\* C6: a getUserMedia call that resolves while the component shows one of
\* its camera-available panels leaves the stream stored in
\* streamRef.current and attached to the video element, Permission State
\* 'granted', Error State empty and 'granted' persisted.
C6_SuccessPostState ==
    (ev.kind = "resolved" /\ ev.up /\ isCameraAvailable)
    => /\ streamRef = ev.n
       /\ videoRef # 0
       /\ elems[videoRef].src = ev.n
       /\ permissionStatus = "granted"
       /\ error = NoError
       /\ saved = "granted"

(***************************************************************************)
(* A failed acquisition.                                                   *)
(***************************************************************************)

\* The step is the catch of requestCameraPermission.
FailureStep == ev'.kind \in {"NotAllowedError", "OtherError"}

\* What every failed call does: it stores no stream, starts no sampling
\* session, and the checkCameraAvailability that awaits it returns normally.
FailureContained ==
    /\ streamRef' = streamRef
    /\ live' = live
    /\ Len(sessions') = Len(sessions)
    /\ ev'.n = 1 => (checkPc' = "done" /\ error' # CheckMsg)

\* C7 as stated: on NotAllowedError Permission State becomes 'denied' and
\* 'denied' is persisted; on any other rejection the generic message is set
\* and Permission State is left unchanged; in both cases no stream is
\* stored, the failure does not propagate and sampling does not start.
C7_FailureOutcome ==
    [][FailureStep =>
        /\ ev'.kind = "NotAllowedError" =>
               (permissionStatus' = "denied" /\ saved' = "denied")
        /\ ev'.kind = "OtherError" =>
               (error' = GenericMsg /\ permissionStatus' = permissionStatus)
        /\ FailureContained]_vars

\* C7 amended: the state updates take effect while the component is
\* mounted, and 'denied' is persisted when the localStorage write succeeds.
C7_FailureOutcomeBestEffort ==
    [][FailureStep =>
        /\ ev'.kind = "NotAllowedError" =>
               /\ mounted => permissionStatus' = "denied"
               /\ ev'.flag => saved' = "denied"
        /\ ev'.kind = "OtherError" =>
               /\ mounted => error' = GenericMsg
               /\ permissionStatus' = permissionStatus
        /\ FailureContained]_vars

\* C7 witness: a call made from the 'prompt' panel was rejected with
\* NotAllowedError, and the denial was recorded and persisted.
C7_Witness ==
    /\ ev.kind = "NotAllowedError" /\ ev.up /\ ev.flag
    /\ ev.pre = "prompt" /\ hint # "denied"
    /\ permissionStatus = "denied" /\ saved = "denied"

(***************************************************************************)
(* The persisted preference and Permission State.                          *)
(***************************************************************************)

\* The step set Permission State: the mount-time query, a change event
\* heard by the listener, or the result of an acquisition.
PermissionSetByStep ==
    \/ ev.kind = "queried"
    \/ ev.kind = "change" /\ ev.flag
    \/ ev.kind = "resolved" /\ ev.vid # 0 /\ ev.flag
    \/ ev.kind = "NotAllowedError" /\ ev.flag

\* C12 as stated: whenever Permission State is set to 'granted' or 'denied'
\* by an acquisition result, by the mount-time query or by a change event,
\* the persisted 'cameraPermission' holds that value afterwards (storage
\* writes succeeding).
C12_PersistedOnEveryOutcome ==
    (PermissionSetByStep /\ ev.up /\ permissionStatus \in {"granted", "denied"})
    => saved = permissionStatus

\* C12 amended: the preference is written by the result of an acquisition
\* only: after a success that reaches the video element 'granted' is
\* persisted, after a NotAllowedError 'denied' is, when the write succeeds.
C12_PersistedOnAcquisitionOutcome ==
    /\ (ev.kind = "resolved" /\ ev.vid # 0 /\ ev.flag)
       => (saved = "granted" /\ permissionStatus = "granted")
    /\ (ev.kind = "NotAllowedError" /\ ev.flag)
       => (saved = "denied" /\ (ev.up => permissionStatus = "denied"))

\* C12 witness: with no entry persisted at mount, an acquisition succeeded
\* and wrote 'granted'.
C12_Witness ==
    /\ ev.kind = "resolved" /\ ev.vid # 0 /\ ev.flag
    /\ hint = "none" /\ saved = "granted" /\ permissionStatus = "granted"

\* C13: every step that issues a getUserMedia request has, before issuing
\* it, stopped the tracks of the stream held in streamRef.current and
\* cleared the reference.
C13_StopBeforeRequest ==
    [][calls' = calls + 1 => (streamRef' = 0 /\ streamRef \notin live')]_vars

\* C13 witness: the 'prompt' panel's button was clicked while a stream with
\* running tracks was held; the stream is stopped, the reference is null
\* and the new request is pending.
C13_Witness ==
    /\ ev.kind = "click" /\ ev.ref # 0 /\ changes = 0
    /\ streamRef = 0 /\ ev.ref \notin live /\ pending > 0

\* C14: Permission State starts as 'prompt' and changes only in a step that
\* is the mount-time query result, a platform change event, or the
\* completion of an acquisition attempt (a page reload starts afresh).
C14_PermissionStateWriters ==
    /\ permissionStatus = "prompt"
    /\ [][permissionStatus' # permissionStatus
          => ev'.kind \in {"queried", "change", "resolved",
                           "NotAllowedError", "OtherError", "mount"}]_vars

\* C14 witness: the hint read 'granted', the acquisition it started is
\* still awaited, and Permission State is still 'prompt'.
C14_Witness ==
    /\ hint = "granted" /\ checkPc = "awaitRequest"
    /\ ev.kind = "checkStart" /\ permissionStatus = "prompt"

\* C15: with the permission-query API available and a camera present, once
\* the mount-time check has finished, no acquisition is pending and none
\* has left an error, Permission State equals the platform's live state.
C15_RederivedFromPlatform ==
    (permsApi /\ hasCamera /\ mounted /\ checkPc = "done" /\ pending = 0
        /\ error = NoError)
    => permissionStatus = platform

(***************************************************************************)
(* The sampling loop.                                                      *)
(***************************************************************************)

\* The pending requestAnimationFrame callbacks that sample element e.
PendingOn(e) ==
    UNION {{<<s, c>> : c \in sessions[s].chains} :
               s \in {t \in DOMAIN sessions : sessions[t].elem = e}}

\* C16: at most one sampling loop is pending for the mounted video element.
C16_SingleSamplingLoop ==
    videoRef # 0 => Cardinality(PendingOn(videoRef)) <= 1

\* C18: a tick hands a frame to onFrame exactly when readyState is
\* HAVE_ENOUGH_DATA, the frame has the width and height the video reports
\* at that tick, the tick leaves exactly its own callback scheduled again,
\* and it belongs to a session whose 'play' listener has run.
C18_TickContract ==
    [][ev'.kind = "tick" =>
        /\ (ev'.frame # NoFrame) <=> ev'.flag
        /\ ev'.frame # NoFrame =>
               /\ ev'.frame.w = ev'.frame.videoWidth
               /\ ev'.frame.h = ev'.frame.videoHeight
        /\ sessions'[ev'.n].chains = sessions[ev'.n].chains
        /\ sessions'[ev'.n].af \in sessions'[ev'.n].chains
        /\ sessions[ev'.n].nchains >= 1]_vars

\* C18 witness: a tick on a playing video held in portrait delivered a
\* 480 x 640 frame and its callback is scheduled again.
C18_Witness ==
    /\ ev.kind = "tick" /\ ev.flag
    /\ ev.frame.w = 480 /\ ev.frame.h = 640
    /\ sessions[ev.n].af \in sessions[ev.n].chains
    /\ ~elems[sessions[ev.n].elem].playPending

\* A stream with running tracks is attached to the mounted video element
\* and the element has started playing it.
Playing ==
    /\ mounted /\ videoRef # 0
    /\ elems[videoRef].src # 0
    /\ elems[videoRef].src \in live
    /\ ~elems[videoRef].playPending

\* C17: while a stream is attached and playing, isCameraAvailable is true
\* and Permission State is 'granted', the current run of the sampling
\* effect has a tick scheduled, also after the effect has been cleaned up
\* and has run again.
C17_LoopRunsWhilePlaying ==
    (Playing /\ isCameraAvailable /\ permissionStatus = "granted")
    => (cur # 0 /\ sessions[cur].chains # {})

(***************************************************************************)
(* Home: the model and the handling of frames.                             *)
(***************************************************************************)

\* C11: no onFrame invocation begins while the handling of an earlier
\* frame is outstanding: at most one model.classify call is pending.
C11_NoOverlappingHandling == classifying <= 1

\* C19: the live tensors never outnumber the frames whose classification
\* is pending.
C19_TensorsDisposed == tensors <= classifying

\* C20: Camera is mounted only with the model loaded, the spinner gone and
\* no page error; after a failed load Camera has not been mounted and has
\* issued no request; no getUserMedia call and no frame happens without a
\* model.
C20_CameraOnlyWithModel ==
    /\ mounted => (model # "null" /\ ~isLoading /\ pageError = NoError)
    /\ pageError # NoError => (~mounted /\ checkPc = "start" /\ calls = 0)
    /\ (calls > 0 \/ FrameDelivered) => model # "null"

\* C20 witness: with the model loaded, mounted Camera delivered a frame and
\* its classification is pending.
C20_Witness ==
    /\ FrameDelivered /\ mounted /\ model = "loaded"
    /\ ~isLoading /\ pageError = NoError /\ classifying > 0

====
